---- MODULE Spec2Model ----
(***************************************************************************)
(* A model of the three services of the audio converter pipeline:          *)
(*   api-gateway/main.py      media_to_text, text_to_audio                 *)
(*   media-processor/main.py  process_media                                *)
(*   text-to-speech/main.py   generate_speech                              *)
(* A Python str is a sequence of one-character strings, so that lower(),   *)
(* split('.'), endswith() and replace() are computed, not assumed.  None   *)
(* and the empty string are both falsy in every test the handlers make of  *)
(* them and are both the empty sequence here.                              *)
(***************************************************************************)
EXTENDS Integers, Sequences, FiniteSets, TLC

\* ------------------------------------------------------------------ bounds
\* Requests of the media pipeline as a whole (uploads to the gateway and
\* direct calls of the processor).
NMedia == 2

\* Requests of the media processor taken alone.
NProc == 2

\* Requests of the speech pipeline as a whole (text posted to the gateway).
NSpeech == 1

\* Requests of the synthesizer taken alone.
NSynth == 2

\* Requests of the synthesizer that compete for the executor's workers.
NPool == 5

\* Requests of the synthesizer whose files a client then downloads.
NDown == 1

MediaReq == 1..NMedia
ProcReq == 1..NProc
SpeechReq == 1..NSpeech
SynthReq == 1..NSynth
PoolReq == 1..NPool
DownReq == 1..NDown

\* ------------------------------------------------------- program constants
HTTP_200_OK == 200
HTTP_400_BAD_REQUEST == 400
HTTP_413_REQUEST_ENTITY_TOO_LARGE == 413
HTTP_500_INTERNAL_SERVER_ERROR == 500
HTTP_404_NOT_FOUND == 404

\* 150 * 1024 * 1024, the ceiling both upload handlers compare against.
MAX_UPLOAD_BYTES == 150 * 1024 * 1024

\* ---------------------------------------------------------------- strings
Empty == << >>

UpperLetters ==
    <<"A","B","C","D","E","F","G","H","I","J","K","L","M",
      "N","O","P","Q","R","S","T","U","V","W","X","Y","Z">>

LowerLetters ==
    <<"a","b","c","d","e","f","g","h","i","j","k","l","m",
      "n","o","p","q","r","s","t","u","v","w","x","y","z">>

\* str.lower() on one character.
LowerChar(c) ==
    IF \E i \in 1..26 : UpperLetters[i] = c
    THEN LowerLetters[CHOOSE i \in 1..26 : UpperLetters[i] = c]
    ELSE c

\* str.lower()
Lower(s) == [i \in 1..Len(s) |-> LowerChar(s[i])]

\* s[:n]
Take(s, n) == SubSeq(s, 1, IF Len(s) < n THEN Len(s) ELSE n)

\* '.' in s
HasDot(s) == \E i \in 1..Len(s) : s[i] = "."

\* s.split('.')[-1]: the text after the last dot, all of s when it has none.
LastField(s) ==
    IF HasDot(s)
    THEN LET k == CHOOSE i \in 1..Len(s) :
                      /\ s[i] = "."
                      /\ \A j \in (i+1)..Len(s) : s[j] # "."
         IN  SubSeq(s, k + 1, Len(s))
    ELSE s

\* s.endswith(t)
EndsWith(s, t) ==
    /\ Len(t) <= Len(s)
    /\ SubSeq(s, Len(s) - Len(t) + 1, Len(s)) = t

\* s.replace(old, new): every occurrence, left to right, without overlap.
RECURSIVE Replace(_, _, _)
Replace(s, old, new) ==
    IF Len(s) < Len(old) THEN s
    ELSE IF SubSeq(s, 1, Len(old)) = old
         THEN new \o Replace(SubSeq(s, Len(old) + 1, Len(s)), old, new)
         ELSE <<Head(s)>> \o Replace(Tail(s), old, new)

DotMp3 == <<".","m","p","3">>
DotWav == <<".","w","a","v">>

\* A text is kept as its runs, <<character, count>> with count > 0, so that
\* a text of 5000 characters is a short value: "Hello world" is
\* << <<"x",5>>, <<" ",1>>, <<"x",5>> >>.
Whitespace == {" ", "\t", "\n"}

\* len(text)
RECURSIVE TextLen(_)
TextLen(text) ==
    IF text = << >> THEN 0 ELSE Head(text)[2] + TextLen(Tail(text))

\* text.lstrip()
RECURSIVE LStrip(_)
LStrip(text) ==
    IF text # << >> /\ Head(text)[1] \in Whitespace
    THEN LStrip(Tail(text)) ELSE text

\* text.rstrip()
RECURSIVE RStrip(_)
RStrip(text) ==
    IF text # << >> /\ text[Len(text)][1] \in Whitespace
    THEN RStrip(SubSeq(text, 1, Len(text) - 1)) ELSE text

\* text.strip()
Strip(text) == RStrip(LStrip(text))

\* ------------------------------------------------- media processor helpers
VIDEO_EXTENSIONS ==
    { <<"m","p","4">>, <<"a","v","i">>, <<"m","o","v">>, <<"m","k","v">>,
      <<"f","l","v">>, <<"w","m","v">>, <<"w","e","b","m">> }

\* The mutant: the extension taken without lower().
file_extension_case_sensitive(filename) ==
    IF HasDot(filename) THEN LastField(filename) ELSE Empty

\* filename.lower().split('.')[-1] if '.' in filename else ''
file_extension(filename) ==
    IF HasDot(filename) THEN LastField(Lower(filename)) ELSE Empty

\* os.path.join(TEMP_FILES_DIR, f"{job_id}_{filename}"), relative to the
\* service's temp directory (both upload handlers build the same name).
UploadPath(job_id, filename) == job_id \o <<"_">> \o filename

\* os.path.join(TEMP_FILES_DIR, f"{job_id}_audio.mp3")
AudioPath(job_id) == job_id \o <<"_","a","u","d","i","o",".","m","p","3">>

\* file_size > 150 * 1024 * 1024
TooLarge(file_size) == file_size > MAX_UPLOAD_BYTES

\* str(uuid.uuid4()): one fresh identifier per gateway request.
Uuid4(r) == <<"u", ToString(r)>>

\* file.filename or f"audio_{job_id[:8]}.mp3"
GatewayFilename(upload_name, job_id) ==
    IF upload_name # Empty THEN upload_name
    ELSE <<"a","u","d","i","o","_">> \o Take(job_id, 8) \o <<".","m","p","3">>

\* Any exception that reaches "except Exception" leaves the handler as a 500,
\* an HTTPException raised inside the try block included.  `raised` is what
\* was raised: <<"http", code>> for an HTTPException, <<"error", 0>> otherwise.
HttpExc(code) == <<"http", code>>
OtherExc == <<"error", 0>>

\* An exception other than an HTTPException, raised in the named call.
ErrorIn(function) == <<function, 0>>

\* api-gateway: except Exception as e: raise HTTPException(500, ...)
media_to_text_except(raised) == HTTP_500_INTERNAL_SERVER_ERROR

\* media-processor: except Exception as e: raise HTTPException(500, ...)
process_media_except(raised) == HTTP_500_INTERNAL_SERVER_ERROR

\* The mutant: a finalization step that forgets the transcoded intermediate.
FinallyInputOnly(files, temp_input_path, temp_audio_path) ==
    files \ {temp_input_path}

\* finally: os.remove of each path that is set and exists.  A path that is
\* unset is Empty, which names no file.
Finally(files, temp_input_path, temp_audio_path) ==
    (files \ (IF temp_input_path # Empty THEN {temp_input_path} ELSE {}))
          \ (IF temp_audio_path # Empty THEN {temp_audio_path} ELSE {})

\* ------------------------------------------------------------------ inputs
\* Upload sizes: empty, exactly the ceiling, one byte over it.
UploadSizes == {0, MAX_UPLOAD_BYTES, MAX_UPLOAD_BYTES + 1}

\* Filenames a caller of the processor may declare: "a.mkv", "a.b.MP4",
\* "mp4" (no dot) and "a.mp4.wav" (a video extension that is not the last).
ClientFilenames ==
    { <<"a",".","m","k","v">>,
      <<"a",".","b",".","M","P","4">>,
      <<"m","p","4">>,
      <<"a",".","m","p","4",".","w","a","v">> }

\* Filenames of an upload to the gateway: none, or "a.b.MP4".
UploadNames == { Empty, <<"a",".","b",".","M","P","4">> }

\* open()/write() of a temp file: written, created but not fully written,
\* or not created at all.
WriteOutcomes == {"ok", "partial", "error"}

\* ------------------------------------------------------------------- state
VARIABLES
    gw,         \* api-gateway media_to_text: the locals of each request
    gwFiles,    \* api-gateway: the files of /app/temp_files
    proc,       \* media-processor process_media: the locals of each request
    procFiles,  \* media-processor: the files of /app/temp_files
    procLoop,   \* media-processor: the request the event loop is running
    gt,         \* api-gateway text_to_audio: the locals of each request
    syn,        \* text-to-speech generate_speech: the locals of each request
    synTemp,    \* text-to-speech: /app/temp_files, filename -> content
    synDest,    \* the destination folders, <<folder, filename>> -> content
    poolQueue,  \* executor: the submitted calls no worker has taken yet
    poolRunning, \* executor: the requests whose engine call a worker runs
    dl          \* text-to-speech download_file: the answer last given

mediaVars == <<gw, gwFiles, proc, procFiles, procLoop>>
speechVars == <<gt, syn, synTemp, synDest, poolQueue, poolRunning, dl>>

vars == <<mediaVars, speechVars>>

NoReq == 0

GwIdle ==
    [pc |-> "idle", job_id |-> Empty, upload_name |-> Empty, file_size |-> 0,
     filename |-> Empty, temp_file_path |-> Empty, response_status |-> 0,
     status_code |-> 0, status |-> "", posts |-> 0]

ProcIdle ==
    [pc |-> "idle", job_id |-> Empty, filename |-> Empty, file_size |-> 0,
     temp_input_path |-> Empty, temp_audio_path |-> Empty, audio_path |-> Empty,
     status_code |-> 0, status |-> "", calls |-> << >>]

GtIdle ==
    [pc |-> "idle", job_id |-> Empty, text |-> << >>, voice_type |-> "",
     request_filename |-> Empty, filename |-> Empty, response_status |-> 0,
     status_code |-> 0, status |-> "", posts |-> 0]

\* No bytes: the value of audio_data before an engine has returned.
NoAudio == <<"none", 0>>

SynIdle ==
    [pc |-> "idle", job_id |-> Empty, text |-> << >>, voice_type |-> "",
     request_filename |-> Empty, download_path |-> "", filename |-> Empty,
     future |-> "none", audio_data |-> NoAudio, file_path |-> <<"", Empty>>,
     status_code |-> 0, status |-> "", calls |-> << >>,
     detail |-> <<"none", 0>>]

\* No download has been answered yet.
NoDownload ==
    [job_id |-> Empty, filename |-> Empty, status_code |-> 0,
     body |-> NoAudio, media_type |-> ""]

InitSpeechOn(reqs) ==
    /\ gt = [r \in reqs |-> GtIdle]
    /\ syn = [r \in reqs |-> SynIdle]
    /\ synTemp = << >>
    /\ synDest = << >>
    /\ poolQueue = << >>
    /\ poolRunning = {}
    /\ dl = NoDownload

InitMediaOn(reqs) ==
    /\ gw = [r \in reqs |-> GwIdle]
    /\ gwFiles = {}
    /\ proc = [r \in reqs |-> ProcIdle]
    /\ procFiles = {}
    /\ procLoop = NoReq

\* ------------------------------------------- api-gateway: media_to_text
\* The handler leaves through "except Exception": the client gets a 500.
GwRaise(g, raised) ==
    [g EXCEPT !.pc = "done", !.status_code = media_to_text_except(raised)]

\* A client posts a file; job_id = str(uuid.uuid4()); await file.read().
G_Receive(r, name, size) ==
    /\ gw[r].pc = "idle"
    /\ proc[r].pc = "idle"
    /\ gw' = [gw EXCEPT ![r] = [@ EXCEPT !.pc = "read", !.job_id = Uuid4(r),
                                          !.upload_name = name,
                                          !.file_size = size]]
    /\ UNCHANGED <<gwFiles, proc, procFiles, procLoop, speechVars>>

\* The size check, the default filename and the temp path.
G_Validate(r) ==
    /\ gw[r].pc = "read"
    /\ gw' = [gw EXCEPT ![r] =
          IF TooLarge(gw[r].file_size)
          THEN GwRaise(gw[r], HttpExc(HTTP_413_REQUEST_ENTITY_TOO_LARGE))
          ELSE LET fn == GatewayFilename(gw[r].upload_name, gw[r].job_id)
               IN  [gw[r] EXCEPT !.pc = "write", !.filename = fn,
                        !.temp_file_path = UploadPath(gw[r].job_id, fn)]]
    /\ UNCHANGED <<gwFiles, proc, procFiles, procLoop, speechVars>>

\* async with aiofiles.open(temp_file_path, "wb") as f: await f.write(content)
G_Write(r, outcome) ==
    /\ gw[r].pc = "write"
    /\ gwFiles' = IF outcome = "error" THEN gwFiles
                  ELSE gwFiles \cup {gw[r].temp_file_path}
    /\ gw' = [gw EXCEPT ![r] =
          IF outcome = "ok" THEN [@ EXCEPT !.pc = "post"]
          ELSE GwRaise(@, OtherExc)]
    /\ UNCHANGED <<proc, procFiles, procLoop, speechVars>>

\* client.post(f"{MEDIA_PROCESSOR_URL}/process-media", ...): the request
\* reaches the processor, or the connection fails and the call raises.
G_Post(r, connected) ==
    /\ gw[r].pc = "post"
    /\ IF connected
       THEN /\ gw' = [gw EXCEPT ![r] = [@ EXCEPT !.pc = "wait",
                                                  !.posts = @ + 1]]
            /\ proc' = [proc EXCEPT ![r] =
                  [@ EXCEPT !.pc = "reading", !.job_id = gw[r].job_id,
                            !.filename = gw[r].filename,
                            !.file_size = gw[r].file_size]]
       ELSE /\ gw' = [gw EXCEPT ![r] =
                  GwRaise([@ EXCEPT !.posts = @ + 1], OtherExc)]
            /\ UNCHANGED proc
    /\ UNCHANGED <<gwFiles, procFiles, procLoop, speechVars>>

\* The awaited post raises (timeout=300.0 passed, or the connection dropped)
\* before a response arrived; the processor goes on with the request.
G_Timeout(r) ==
    /\ gw[r].pc = "wait"
    /\ gw' = [gw EXCEPT ![r] = GwRaise(@, OtherExc)]
    /\ UNCHANGED <<gwFiles, proc, procFiles, procLoop, speechVars>>

\* The lines after the awaited post: the temp file is removed, then a
\* status other than 200 is raised as an HTTPException of that status.
GwAfterPost(g, status_code) ==
    LET g2 == [g EXCEPT !.response_status = status_code]
    IN  IF status_code # HTTP_200_OK
        THEN GwRaise(g2, HttpExc(status_code))
        ELSE [g2 EXCEPT !.pc = "done", !.status_code = HTTP_200_OK,
                        !.status = "completed"]

\* The processor's handler has answered and its response arrives.
G_Response(r) ==
    /\ gw[r].pc = "wait"
    /\ proc[r].pc = "done"
    /\ gwFiles' = gwFiles \ {gw[r].temp_file_path}
    /\ gw' = [gw EXCEPT ![r] = GwAfterPost(gw[r], proc[r].status_code)]
    /\ UNCHANGED <<proc, procFiles, procLoop, speechVars>>

\* Statuses with which the HTTP server at MEDIA_PROCESSOR_URL (an environment
\* setting) may answer by itself, whatever the handler does: here a 503.
ServerStatuses == {503}

\* The server at MEDIA_PROCESSOR_URL answers without the handler's result.
G_ServerAnswer(r, status_code) ==
    /\ gw[r].pc = "wait"
    /\ gwFiles' = gwFiles \ {gw[r].temp_file_path}
    /\ gw' = [gw EXCEPT ![r] = GwAfterPost(gw[r], status_code)]
    /\ UNCHANGED <<proc, procFiles, procLoop, speechVars>>

\* ------------------------------------------ media-processor: process_media
\* The handler leaves the try block through "except Exception"; the finally
\* clause is still to run.
ProcRaise(p, raised) ==
    [p EXCEPT !.pc = "finally", !.status_code = process_media_except(raised)]

\* A client posts to /process-media itself, with a job_id and a filename of
\* its choosing; await file.read().
P_Direct(r, job_id, name, size) ==
    /\ gw[r].pc = "idle"
    /\ proc[r].pc = "idle"
    /\ proc' = [proc EXCEPT ![r] =
          [proc[r] EXCEPT !.pc = "reading", !.job_id = job_id,
                          !.filename = name, !.file_size = size]]
    /\ UNCHANGED <<gw, gwFiles, procFiles, procLoop, speechVars>>

\* The mutant: the handler's body runs off the event loop (as a plain "def"
\* handler would, in the framework's thread pool), so it waits for nobody.
P_ValidateOffloaded(r) ==
    /\ proc[r].pc = "reading"
    /\ procLoop' = r
    /\ proc' = [proc EXCEPT ![r] =
          IF TooLarge(proc[r].file_size)
          THEN ProcRaise(proc[r], HttpExc(HTTP_413_REQUEST_ENTITY_TOO_LARGE))
          ELSE [proc[r] EXCEPT !.pc = "save"]]
    /\ UNCHANGED <<gw, gwFiles, procFiles, speechVars>>

\* file.read() returns: from here to the end of the handler nothing is
\* awaited, so the event loop runs this request alone.  The size check.
P_Validate(r) ==
    /\ proc[r].pc = "reading"
    /\ procLoop = NoReq
    /\ procLoop' = r
    /\ proc' = [proc EXCEPT ![r] =
          IF TooLarge(proc[r].file_size)
          THEN ProcRaise(proc[r], HttpExc(HTTP_413_REQUEST_ENTITY_TOO_LARGE))
          ELSE [proc[r] EXCEPT !.pc = "save"]]
    /\ UNCHANGED <<gw, gwFiles, procFiles, speechVars>>

\* temp_input_path is set and the upload is written.  extract_audio_info
\* follows: it never raises (it returns {} instead) and its result only
\* travels into the response, so it is no step of its own.
P_Save(r, outcome) ==
    /\ proc[r].pc = "save"
    /\ LET path == UploadPath(proc[r].job_id, proc[r].filename)
           p    == [proc[r] EXCEPT !.temp_input_path = path]
       IN  /\ procFiles' = IF outcome = "error" THEN procFiles
                           ELSE procFiles \cup {path}
           /\ proc' = [proc EXCEPT ![r] =
                 IF outcome = "ok"
                 THEN [p EXCEPT !.pc = "classify"]
                 ELSE ProcRaise(p, OtherExc)]
    /\ UNCHANGED <<gw, gwFiles, procLoop, speechVars>>

\* audio_path = temp_input_path; a video extension sets temp_audio_path.
P_Classify(r) ==
    /\ proc[r].pc = "classify"
    /\ proc' = [proc EXCEPT ![r] =
          IF file_extension(proc[r].filename) \in VIDEO_EXTENSIONS
          THEN [proc[r] EXCEPT !.pc = "convert",
                               !.audio_path = proc[r].temp_input_path,
                               !.temp_audio_path = AudioPath(proc[r].job_id)]
          ELSE [proc[r] EXCEPT !.pc = "transcribe",
                               !.audio_path = proc[r].temp_input_path]]
    /\ UNCHANGED <<gw, gwFiles, procFiles, procLoop, speechVars>>

\* convert_to_audio: ffmpeg exits 0 and has written the output, or it fails
\* (False is returned) having written some of the output or none.
P_Convert(r, ok, wrote) ==
    /\ proc[r].pc = "convert"
    /\ ok => wrote
    /\ procFiles' = IF wrote THEN procFiles \cup {proc[r].temp_audio_path}
                    ELSE procFiles
    /\ proc' = [proc EXCEPT ![r] =
          LET p == [proc[r] EXCEPT
                       !.calls = Append(@, <<"convert_to_audio", ok>>)]
          IN  IF ~ok
              THEN ProcRaise(p, HttpExc(HTTP_500_INTERNAL_SERVER_ERROR))
              ELSE [p EXCEPT !.pc = "transcribe",
                             !.audio_path = proc[r].temp_audio_path]]
    /\ UNCHANGED <<gw, gwFiles, procLoop, speechVars>>

\* transcribe_audio(audio_path) is entered: model.transcribe runs.
P_Transcribe(r) ==
    /\ proc[r].pc = "transcribe"
    /\ proc' = [proc EXCEPT ![r] =
          [proc[r] EXCEPT !.pc = "transcribing",
              !.calls = Append(@, <<"transcribe_audio", proc[r].audio_path>>)]]
    /\ UNCHANGED <<gw, gwFiles, procFiles, procLoop, speechVars>>

\* model.transcribe returns and the result is built, or it raises.
P_Transcribed(r, ok) ==
    /\ proc[r].pc = "transcribing"
    /\ proc' = [proc EXCEPT ![r] =
          IF ok
          THEN [proc[r] EXCEPT !.pc = "finally", !.status = "completed",
                               !.status_code = HTTP_200_OK]
          ELSE ProcRaise(proc[r], OtherExc)]
    /\ UNCHANGED <<gw, gwFiles, procFiles, procLoop, speechVars>>

\* finally: both temp files are removed; the response leaves and the event
\* loop is free again.
P_Finally(r) ==
    /\ proc[r].pc = "finally"
    /\ procFiles' = Finally(procFiles, proc[r].temp_input_path,
                            proc[r].temp_audio_path)
    /\ proc' = [proc EXCEPT ![r] = [proc[r] EXCEPT !.pc = "done"]]
    /\ procLoop' = NoReq
    /\ UNCHANGED <<gw, gwFiles, speechVars>>

\* The job id a direct caller of the processor sends: callers may repeat it.
DirectJobIds == { <<"j","o","b">> }

ProcessorStep(r) ==
    \/ \E job_id \in DirectJobIds, name \in ClientFilenames,
          size \in UploadSizes : P_Direct(r, job_id, name, size)
    \/ P_Validate(r)
    \/ \E outcome \in WriteOutcomes : P_Save(r, outcome)
    \/ P_Classify(r)
    \/ \E ok \in BOOLEAN, wrote \in BOOLEAN : P_Convert(r, ok, wrote)
    \/ P_Transcribe(r)
    \/ \E ok \in BOOLEAN : P_Transcribed(r, ok)
    \/ P_Finally(r)

GatewayMediaStep(r) ==
    \/ \E name \in UploadNames, size \in UploadSizes :
           G_Receive(r, name, size)
    \/ G_Validate(r)
    \/ \E outcome \in WriteOutcomes : G_Write(r, outcome)
    \/ \E connected \in BOOLEAN : G_Post(r, connected)
    \/ G_Timeout(r)
    \/ G_Response(r)
    \/ \E status_code \in ServerStatuses : G_ServerAnswer(r, status_code)

\* The media processor alone, called by any client.
InitProcessor == InitMediaOn(ProcReq) /\ InitSpeechOn({})
NextProcessor == \E r \in ProcReq : ProcessorStep(r)
SpecProcessor == InitProcessor /\ [][NextProcessor]_vars

\* The gateway's media intake in front of the processor.
InitMedia == InitMediaOn(MediaReq) /\ InitSpeechOn({})
NextMedia == \E r \in MediaReq : GatewayMediaStep(r) \/ ProcessorStep(r)
SpecMedia == InitMedia /\ [][NextMedia]_vars

\* ------------------------------------ text-to-speech: generate_speech
\* executor = ThreadPoolExecutor(max_workers=4)
max_workers == 4

\* The text ceiling of generate_speech.
MAX_TEXT_LENGTH == 5000

\* text-to-speech: except Exception as e: raise HTTPException(500, ...)
generate_speech_except(raised) == HTTP_500_INTERNAL_SERVER_ERROR

\* The mutant: a voice check that lets every voice type through.
AnyVoice(voice_type) == TRUE

\* request.voice_type in ["male", "female"], as generate_speech tests it.
GenerateSpeechVoiceOK(voice_type) == voice_type \in {"male", "female"}

\* len(request.text) > 5000
TextTooLong(text) == TextLen(text) > MAX_TEXT_LENGTH

\* not request.text.strip()
TextIsEmpty(text) == Strip(text) = << >>

\* filename = request.filename or f"{request.job_id}.mp3";
\* if not filename.endswith('.mp3'): filename += '.mp3'
SynthFilename(request_filename, job_id) ==
    LET filename == IF request_filename # Empty THEN request_filename
                    ELSE job_id \o DotMp3
    IN  IF EndsWith(filename, DotMp3) THEN filename ELSE filename \o DotMp3

\* The mutant: the fallback keeps the filename it has.
FallbackFilenameKept(filename) == filename

\* filename.replace(".mp3", ".wav")
FallbackFilename(filename) == Replace(filename, DotMp3, DotWav)

\* str(Path.home() / "Downloads")
DefaultDownloadPath == "~/Downloads"

\* request.download_path if it is set, else get_default_download_path()
DownloadFolder(download_path) ==
    IF download_path # "" THEN download_path ELSE DefaultDownloadPath

\* The bytes an engine returns for request r: gTTS makes mp3, pyttsx3 wav.
EngineAudio(use_gtts, r) == <<IF use_gtts THEN "mp3" ELSE "wav", r>>

\* What is left of a file whose write did not complete.
Truncated == <<"truncated", 0>>

\* The mutant: a file is created exclusively; one that exists is left alone.
WithFileUnlessThere(files, path, content) ==
    [q \in DOMAIN files \cup {path} |->
        IF q \in DOMAIN files THEN files[q] ELSE content]

\* A file system with the file at `path` holding `content`.
WithFile(files, path, content) ==
    [q \in DOMAIN files \cup {path} |->
        IF q = path THEN content ELSE files[q]]

\* except Exception as e: the handler answers 500 with str(e) in the detail.
SynRaise(y, raised) ==
    [y EXCEPT !.pc = "done", !.status_code = generate_speech_except(raised),
              !.detail = raised]

\* A client posts to /generate-speech itself.
S_Direct(r, req) ==
    /\ gt[r].pc = "idle"
    /\ syn[r].pc = "idle"
    /\ syn' = [syn EXCEPT ![r] =
          [syn[r] EXCEPT !.pc = "received", !.job_id = <<"j","o","b">>,
                         !.text = req.text, !.voice_type = req.voice_type,
                         !.request_filename = req.filename,
                         !.download_path = req.download_path]]
    /\ UNCHANGED <<gt, synTemp, synDest, poolQueue, poolRunning, dl, mediaVars>>

\* The three checks, the filename, and the primary engine's call handed to
\* the executor: loop.run_in_executor(executor, run_tts_generation, ..., True)
S_Validate(r) ==
    /\ syn[r].pc = "received"
    /\ LET y == syn[r]
           bad == \/ ~GenerateSpeechVoiceOK(y.voice_type)
                  \/ TextTooLong(y.text)
                  \/ TextIsEmpty(y.text)
       IN  IF bad
           THEN /\ syn' = [syn EXCEPT ![r] =
                      SynRaise(y, HttpExc(HTTP_400_BAD_REQUEST))]
                /\ UNCHANGED poolQueue
           ELSE /\ syn' = [syn EXCEPT ![r] =
                      [y EXCEPT !.pc = "primary", !.future = "pending",
                                !.filename = SynthFilename(y.request_filename,
                                                           y.job_id)]]
                /\ poolQueue' = Append(poolQueue, <<r, TRUE>>)
    /\ UNCHANGED <<gt, synTemp, synDest, poolRunning, dl, mediaVars>>

\* The mutant: an executor that starts a thread for every submitted call.
E_StartUnbounded(r) ==
    /\ poolQueue # << >>
    /\ Head(poolQueue)[1] = r
    /\ poolQueue' = Tail(poolQueue)
    /\ poolRunning' = poolRunning \cup {r}
    /\ syn' = [syn EXCEPT ![r] =
          [syn[r] EXCEPT !.calls = Append(@, <<"run_tts_generation",
                                               Head(poolQueue)[2], "running">>)]]
    /\ UNCHANGED <<gt, synTemp, synDest, dl, mediaVars>>

\* A free worker of the pool takes the oldest submitted call and enters
\* run_tts_generation(text, voice_type, language, use_gtts).
E_Start(r) ==
    /\ poolQueue # << >>
    /\ Head(poolQueue)[1] = r
    /\ Cardinality(poolRunning) < max_workers
    /\ poolQueue' = Tail(poolQueue)
    /\ poolRunning' = poolRunning \cup {r}
    /\ syn' = [syn EXCEPT ![r] =
          [syn[r] EXCEPT !.calls = Append(@, <<"run_tts_generation",
                                               Head(poolQueue)[2], "running">>)]]
    /\ UNCHANGED <<gt, synTemp, synDest, dl, mediaVars>>

\* The engine returns its bytes or raises; the worker is free again.
E_Finish(r, ok) ==
    /\ r \in poolRunning
    /\ poolRunning' = poolRunning \ {r}
    /\ syn' = [syn EXCEPT ![r] =
          [syn[r] EXCEPT !.future = IF ok THEN "returned" ELSE "raised",
                         !.calls[Len(syn[r].calls)][3] =
                             IF ok THEN "returned" ELSE "raised"]]
    /\ UNCHANGED <<gt, synTemp, synDest, poolQueue, dl, mediaVars>>

\* run_tts_generation's use_gtts argument in the call the handler awaits.
AwaitedIsPrimary(y) == y.pc = "primary"

\* The mutant: a primary failure is reported at once, no fallback is tried.
S_NoFallback(r) ==
    /\ syn[r].pc = "primary"
    /\ syn[r].future = "raised"
    /\ syn' = [syn EXCEPT ![r] =
          SynRaise(syn[r], ErrorIn("run_tts_generation"))]
    /\ UNCHANGED <<gt, synTemp, synDest, poolQueue, poolRunning, dl, mediaVars>>

\* except Exception: the primary call raised; the extension is changed and
\* the fallback engine's call is handed to the same executor.
S_Fallback(r) ==
    /\ syn[r].pc = "primary"
    /\ syn[r].future = "raised"
    /\ syn' = [syn EXCEPT ![r] =
          [syn[r] EXCEPT !.pc = "fallback", !.future = "pending",
                         !.filename = FallbackFilename(syn[r].filename)]]
    /\ poolQueue' = Append(poolQueue, <<r, FALSE>>)
    /\ UNCHANGED <<gt, synTemp, synDest, poolRunning, dl, mediaVars>>

\* The fallback call raised too: nothing catches it before the outer
\* "except Exception".
S_Fail(r) ==
    /\ syn[r].pc = "fallback"
    /\ syn[r].future = "raised"
    /\ syn' = [syn EXCEPT ![r] =
          SynRaise(syn[r], ErrorIn("run_tts_generation"))]
    /\ UNCHANGED <<gt, synTemp, synDest, poolQueue, poolRunning, dl, mediaVars>>

\* An engine call returned: the bytes are written to the temp directory and
\* copied to the destination folder (copy_file_to_destination), and the
\* response is built.  Nothing is awaited on the way.  The write and the
\* copy (or the creation of the folder before it) may each fail.
S_Persist(r, written, copied) ==
    /\ syn[r].pc \in {"primary", "fallback"}
    /\ syn[r].future = "returned"
    /\ LET y      == [syn[r] EXCEPT
                         !.audio_data = EngineAudio(AwaitedIsPrimary(syn[r]), r)]
           folder == DownloadFolder(y.download_path)
           dest   == <<folder, y.filename>>
       IN  /\ synTemp' =
                 CASE written = "ok" ->
                          WithFile(synTemp, y.filename, y.audio_data)
                   [] written = "partial" ->
                          WithFile(synTemp, y.filename, Truncated)
                   [] OTHER -> synTemp
           /\ synDest' = IF written = "ok" /\ copied
                         THEN WithFile(synDest, dest, synTemp'[y.filename])
                         ELSE synDest
           /\ syn' = [syn EXCEPT ![r] =
                 IF written = "ok" /\ copied
                 THEN [y EXCEPT !.pc = "done", !.file_path = dest,
                                !.status = "completed",
                                !.status_code = HTTP_200_OK]
                 ELSE IF written = "ok"
                 THEN SynRaise(y, ErrorIn("copy_file_to_destination"))
                 ELSE SynRaise(y, ErrorIn("open"))]
    /\ UNCHANGED <<gt, poolQueue, poolRunning, dl, mediaVars>>

\* ------------------------------------------ text-to-speech: download_file
\* text-to-speech: except Exception as e: raise HTTPException(500, ...)
download_file_except(raised) == HTTP_500_INTERNAL_SERVER_ERROR

\* "audio/mpeg" if filename.endswith('.mp3') else "audio/wav"
MediaType(filename) ==
    IF EndsWith(filename, DotMp3) THEN "audio/mpeg" ELSE "audio/wav"

\* The mutant: only a file whose name starts with the job_id is sent, the
\* way get_file_info lists the files of a job.
D_DownloadOfJob(job_id, filename) ==
    /\ dl' = IF \/ filename \notin DOMAIN synTemp
                \/ Take(filename, Len(job_id)) # job_id
             THEN [job_id |-> job_id, filename |-> filename,
                   status_code |->
                       download_file_except(HttpExc(HTTP_404_NOT_FOUND)),
                   body |-> NoAudio, media_type |-> ""]
             ELSE [job_id |-> job_id, filename |-> filename,
                   status_code |-> HTTP_200_OK,
                   body |-> synTemp[filename],
                   media_type |-> MediaType(filename)]
    /\ UNCHANGED <<gt, syn, synTemp, synDest, poolQueue, poolRunning,
                   mediaVars>>

\* GET /download/{job_id}/{filename}: the file of that name in the temp
\* directory is sent, whatever the job_id; a missing file raises 404 inside
\* the try block.
D_Download(job_id, filename) ==
    /\ dl' = IF filename \notin DOMAIN synTemp
             THEN [job_id |-> job_id, filename |-> filename,
                   status_code |->
                       download_file_except(HttpExc(HTTP_404_NOT_FOUND)),
                   body |-> NoAudio, media_type |-> ""]
             ELSE [job_id |-> job_id, filename |-> filename,
                   status_code |-> HTTP_200_OK,
                   body |-> synTemp[filename],
                   media_type |-> MediaType(filename)]
    /\ UNCHANGED <<gt, syn, synTemp, synDest, poolQueue, poolRunning,
                   mediaVars>>

\* ------------------------------------------ api-gateway: text_to_audio
\* api-gateway: except Exception as e: raise HTTPException(500, ...)
text_to_audio_except(raised) == HTTP_500_INTERNAL_SERVER_ERROR

\* request.voice_type in ["male", "female"], as text_to_audio tests it.
TextToAudioVoiceOK(voice_type) == voice_type \in {"male", "female"}

\* ''.join(random.choices(string.ascii_lowercase, k=10)): two of the names.
RandomNames ==
    { <<"a","b","c","d","e","f","g","h","i","j">>,
      <<"z","z","z","z","z","z","z","z","z","z">> }

\* The filename text_to_audio sends: f"{random_name}.mp3" when the request
\* has none, else the request's, with ".mp3" added unless it ends with it.
GatewayAudioFilename(request_filename, random_name) ==
    IF request_filename = Empty THEN random_name \o DotMp3
    ELSE IF EndsWith(request_filename, DotMp3) THEN request_filename
         ELSE request_filename \o DotMp3

GtRaise(g, raised) ==
    [g EXCEPT !.pc = "done", !.status_code = text_to_audio_except(raised)]

\* A client posts text; job_id = str(uuid.uuid4()).
T_Receive(r, req) ==
    /\ gt[r].pc = "idle"
    /\ syn[r].pc = "idle"
    /\ gt' = [gt EXCEPT ![r] =
          [gt[r] EXCEPT !.pc = "received", !.job_id = Uuid4(r),
                        !.text = req.text, !.voice_type = req.voice_type,
                        !.request_filename = req.filename]]
    /\ UNCHANGED <<syn, synTemp, synDest, poolQueue, poolRunning, dl, mediaVars>>

\* The voice check and the filename.
T_Validate(r, random_name) ==
    /\ gt[r].pc = "received"
    /\ gt' = [gt EXCEPT ![r] =
          IF ~TextToAudioVoiceOK(gt[r].voice_type)
          THEN GtRaise(gt[r], HttpExc(HTTP_400_BAD_REQUEST))
          ELSE [gt[r] EXCEPT !.pc = "post",
                   !.filename = GatewayAudioFilename(gt[r].request_filename,
                                                     random_name)]]
    /\ UNCHANGED <<syn, synTemp, synDest, poolQueue, poolRunning, dl, mediaVars>>

\* client.post(f"{TEXT_TO_SPEECH_URL}/generate-speech", json=payload, ...):
\* the request reaches the synthesizer, or the connection fails.
T_Post(r, connected) ==
    /\ gt[r].pc = "post"
    /\ IF connected
       THEN /\ gt' = [gt EXCEPT ![r] = [gt[r] EXCEPT !.pc = "wait",
                                                      !.posts = @ + 1]]
            /\ syn' = [syn EXCEPT ![r] =
                  [syn[r] EXCEPT !.pc = "received", !.job_id = gt[r].job_id,
                                 !.text = gt[r].text,
                                 !.voice_type = gt[r].voice_type,
                                 !.request_filename = gt[r].filename]]
       ELSE /\ gt' = [gt EXCEPT ![r] =
                  GtRaise([gt[r] EXCEPT !.posts = @ + 1], OtherExc)]
            /\ UNCHANGED syn
    /\ UNCHANGED <<synTemp, synDest, poolQueue, poolRunning, dl, mediaVars>>

\* The awaited post raises (timeout=300.0 passed, or the connection dropped)
\* before a response arrived; the synthesizer goes on with the request.
T_Timeout(r) ==
    /\ gt[r].pc = "wait"
    /\ gt' = [gt EXCEPT ![r] = GtRaise(gt[r], OtherExc)]
    /\ UNCHANGED <<syn, synTemp, synDest, poolQueue, poolRunning, dl, mediaVars>>

\* The synthesizer's response arrives: a status other than 200 is raised as
\* an HTTPException of that status; on 200 the descriptor is built from the
\* handler's own filename (result = response.json() is not read again).
T_Response(r) ==
    /\ gt[r].pc = "wait"
    /\ syn[r].pc = "done"
    /\ gt' = [gt EXCEPT ![r] =
          LET g == [gt[r] EXCEPT !.response_status = syn[r].status_code]
          IN  IF g.response_status # HTTP_200_OK
              THEN GtRaise(g, HttpExc(g.response_status))
              ELSE [g EXCEPT !.pc = "done", !.status_code = HTTP_200_OK,
                             !.status = "completed"]]
    /\ UNCHANGED <<syn, synTemp, synDest, poolQueue, poolRunning, dl, mediaVars>>

\* ------------------------------------------------------------ speech inputs
\* "Hello world": five characters, a space, five characters.
HelloWorld == << <<"x", 5>>, <<" ", 1>>, <<"x", 5>> >>

\* A text of exactly 5000 characters between two spaces stripped by no one:
\* its length, 5000, counts them.
LongestText == << <<" ", 1>>, <<"x", 4998>>, <<" ", 1>> >>

\* A text of 5001 characters.
OverlongText == << <<"x", 5001>> >>

\* A text of three whitespace characters, and the empty text.
BlankText == << <<" ", 2>>, <<"\n", 1>> >>
EmptyText == << >>

\* The bodies a caller of /generate-speech sends.
SynthRequests ==
    { [text |-> HelloWorld, voice_type |-> "male",
       filename |-> Empty, download_path |-> ""],
      [text |-> LongestText, voice_type |-> "female",
       filename |-> <<"a",".","w","a","v">>, download_path |-> "/d"],
      [text |-> HelloWorld, voice_type |-> "female",
       filename |-> <<"a",".","m","p","3">>, download_path |-> ""],
      [text |-> HelloWorld, voice_type |-> "robot",
       filename |-> Empty, download_path |-> ""],
      [text |-> OverlongText, voice_type |-> "male",
       filename |-> Empty, download_path |-> ""],
      [text |-> BlankText, voice_type |-> "male",
       filename |-> Empty, download_path |-> ""],
      [text |-> EmptyText, voice_type |-> "female",
       filename |-> Empty, download_path |-> ""] }

\* The bodies a client of /api/v1/text-to-audio sends.
TextRequests ==
    { [text |-> HelloWorld, voice_type |-> "male", filename |-> Empty],
      [text |-> HelloWorld, voice_type |-> "female",
       filename |-> <<"a">>],
      [text |-> HelloWorld, voice_type |-> "robot", filename |-> Empty],
      [text |-> BlankText, voice_type |-> "male",
       filename |-> <<"a",".","m","p","3">>] }

SynthesizerStep(r) ==
    \/ S_Validate(r)
    \/ E_Start(r)
    \/ \E ok \in BOOLEAN : E_Finish(r, ok)
    \/ S_Fallback(r)
    \/ S_Fail(r)
    \/ \E written \in WriteOutcomes, copied \in BOOLEAN :
           S_Persist(r, written, copied)

GatewayTextStep(r) ==
    \/ \E req \in TextRequests : T_Receive(r, req)
    \/ \E random_name \in RandomNames : T_Validate(r, random_name)
    \/ \E connected \in BOOLEAN : T_Post(r, connected)
    \/ T_Timeout(r)
    \/ T_Response(r)

\* The synthesizer alone, called by any client.
InitSynth == InitSpeechOn(SynthReq) /\ InitMediaOn({})
NextSynth ==
    \E r \in SynthReq :
        \/ \E req \in SynthRequests : S_Direct(r, req)
        \/ SynthesizerStep(r)
SpecSynth == InitSynth /\ [][NextSynth]_vars

\* The gateway's text intake in front of the synthesizer.
InitSpeech == InitSpeechOn(SpeechReq) /\ InitMediaOn({})
NextSpeech == \E r \in SpeechReq : GatewayTextStep(r) \/ SynthesizerStep(r)
SpecSpeech == InitSpeech /\ [][NextSpeech]_vars

\* The synthesizer under load: more requests than the executor has workers,
\* each a well-formed body that names a file of its own, so that every one
\* of them reaches the executor.
PoolRequests(r) ==
    { [text |-> HelloWorld, voice_type |-> "male",
       filename |-> <<"f", ToString(r)>>, download_path |-> ""] }

\* What the synthesizer does for request r once the request is in: the
\* handler's steps on the event loop and the executor's on its workers.
PoolServes(r) ==
    \/ S_Validate(r)
    \/ E_Start(r)
    \/ \E ok \in BOOLEAN : E_Finish(r, ok)
    \/ S_Fallback(r)
    \/ S_Fail(r)
    \/ \E written \in {"ok", "error"} : S_Persist(r, written, TRUE)

InitPool == InitSpeechOn(PoolReq) /\ InitMediaOn({})
NextPool ==
    \E r \in PoolReq :
        \/ \E req \in PoolRequests(r) : S_Direct(r, req)
        \/ PoolServes(r)
SpecPool == InitPool /\ [][NextPool]_vars

\* The job ids and filenames a client of /download/{job_id}/{filename} asks
\* for: the names generate_speech gives its files, and one it never gives.
DownloadJobIds == { <<"j","o","b">>, <<"x">> }
DownloadNames ==
    { <<"j","o","b">> \o DotMp3, <<"j","o","b">> \o DotWav,
      <<"a">> \o DotMp3, <<"n","o","n","e">> \o DotMp3 }

\* The synthesizer and the downloads of what it left in the temp directory.
InitDownload == InitSpeechOn(DownReq) /\ InitMediaOn({})
NextDownload ==
    \/ \E r \in DownReq :
          \/ \E req \in SynthRequests : S_Direct(r, req)
          \/ SynthesizerStep(r)
    \/ \E job_id \in DownloadJobIds, filename \in DownloadNames :
          D_Download(job_id, filename)
SpecDownload == InitDownload /\ [][NextDownload]_vars

\* ------------------------------------------------------ claims: media side
\* The calls of process_media's request r to the named function.
ProcCallsTo(r, name) ==
    { i \in 1..Len(proc[r].calls) : proc[r].calls[i][1] = name }

\* The filename's extension, the text after its last dot taken without
\* regard to case, is one of the video extensions.
IsVideoName(filename) ==
    \E i \in 1..Len(filename) :
        /\ filename[i] = "."
        /\ \A j \in (i+1)..Len(filename) : filename[j] # "."
        /\ Lower(SubSeq(filename, i + 1, Len(filename))) \in VIDEO_EXTENSIONS

\* C1 (as claimed): an upload of more than 150 MiB is answered 413 by the
\* gateway's media_to_text and by the processor's process_media, and such a
\* request transcodes nothing, transcribes nothing and, at the gateway, calls
\* nothing downstream.
C1_OversizeAnswered413 ==
    /\ \A r \in DOMAIN gw :
           (gw[r].pc = "done" /\ gw[r].file_size > 150 * 1024 * 1024)
           => /\ gw[r].status_code = 413
              /\ gw[r].posts = 0
              /\ proc[r].calls = << >>
    /\ \A r \in DOMAIN proc :
           (proc[r].pc = "done" /\ proc[r].file_size > 150 * 1024 * 1024)
           => /\ proc[r].status_code = 413
              /\ proc[r].calls = << >>

\* C3: for a video filename, transcribe_audio is called only after
\* convert_to_audio was called and returned True, and on the transcoded
\* file; a failed conversion fails the request and nothing is transcribed.
\* For any other filename convert_to_audio is never called and what is
\* transcribed is the saved upload.  A request answered 200 has transcribed.
C3_TranscodeBeforeTranscribe ==
    \A r \in DOMAIN proc :
        LET calls  == proc[r].calls
            upload == UploadPath(proc[r].job_id, proc[r].filename)
            audio  == AudioPath(proc[r].job_id)
        IN  /\ IsVideoName(proc[r].filename) =>
                 /\ \A i \in ProcCallsTo(r, "transcribe_audio") :
                        /\ calls[i][2] = audio
                        /\ \E j \in 1..(i-1) :
                               calls[j] = <<"convert_to_audio", TRUE>>
                 /\ (\E j \in 1..Len(calls) :
                         calls[j] = <<"convert_to_audio", FALSE>>)
                    => /\ ProcCallsTo(r, "transcribe_audio") = {}
                       /\ proc[r].status_code \notin {0, 200}
            /\ ~IsVideoName(proc[r].filename) =>
                 /\ ProcCallsTo(r, "convert_to_audio") = {}
                 /\ \A i \in ProcCallsTo(r, "transcribe_audio") :
                        calls[i][2] = upload
            /\ proc[r].status_code = 200 =>
                 Cardinality(ProcCallsTo(r, "transcribe_audio")) = 1

\* C3's case: one request with a video filename in capitals was transcoded
\* and then transcribed, another with a filename that is no video was
\* transcribed as uploaded.
C3_Witness ==
    \E r, q \in DOMAIN proc :
        /\ proc[r].filename = <<"a",".","b",".","M","P","4">>
        /\ proc[r].calls = << <<"convert_to_audio", TRUE>>,
                              <<"transcribe_audio", AudioPath(proc[r].job_id)>> >>
        /\ proc[q].filename = <<"a",".","m","p","4",".","w","a","v">>
        /\ proc[q].calls = << <<"transcribe_audio",
                                UploadPath(proc[q].job_id, proc[q].filename)>> >>

\* C5: at the step by which a /process-media request returns, with a result
\* or with an error, neither "{job_id}_{filename}" nor "{job_id}_audio.mp3"
\* is a file of the processor's temp directory.
C5_NoTempFilesAfterReturn ==
    [][\A r \in DOMAIN proc :
           (proc[r].pc # "done" /\ proc'[r].pc = "done")
           => /\ UploadPath(proc[r].job_id, proc[r].filename) \notin procFiles'
              /\ AudioPath(proc[r].job_id) \notin procFiles']_vars

\* C5's case: a request has returned an error after ffmpeg failed, and no
\* file is left although ffmpeg had run on the saved upload.
C5_Witness ==
    \E r \in DOMAIN proc :
        /\ proc[r].pc = "done"
        /\ proc[r].calls = << <<"convert_to_audio", FALSE>> >>
        /\ proc[r].temp_input_path # Empty
        /\ proc[r].temp_audio_path # Empty
        /\ procFiles = {}

\* C6 (as claimed): when media_to_text returns after it has made the
\* forwarding call, whatever came of the call, its temp file is deleted.
C6_GatewayTempFileDeleted ==
    \A r \in DOMAIN gw :
        (gw[r].pc = "done" /\ gw[r].posts > 0)
        => gw[r].temp_file_path \notin gwFiles

\* C7 (as claimed): a non-200 status s of the forwarded request's response is
\* the status of media_to_text's own response.
C7_StatusPropagated ==
    \A r \in DOMAIN gw :
        (gw[r].pc = "done" /\ gw[r].response_status \notin {0, 200})
        => gw[r].status_code = gw[r].response_status

\* ----------------------------------------------------- claims: speech side
\* The request's text and voice are ones generate_speech is to accept: the
\* voice is male or female, the text has at most 5000 characters and one of
\* them at least is no whitespace.
AcceptableSpeech(y) ==
    /\ y.voice_type = "male" \/ y.voice_type = "female"
    /\ TextLen(y.text) <= 5000
    /\ \E i \in 1..Len(y.text) : y.text[i][1] \notin {" ", "\t", "\n"}

PrimaryCall(result) == <<"run_tts_generation", TRUE, result>>
FallbackCall(result) == <<"run_tts_generation", FALSE, result>>

\* C2: a request to text_to_audio whose voice_type is neither "male" nor
\* "female" is never posted to /generate-speech, no request of its reaches
\* the synthesizer, and when it returns it returns an error.
C2_BadVoiceNeverForwarded ==
    \A r \in DOMAIN gt :
        (gt[r].pc # "idle" /\ gt[r].voice_type \notin {"male", "female"})
        => /\ gt[r].posts = 0
           /\ syn[r].pc = "idle"
           /\ syn[r].calls = << >>
           /\ gt[r].pc = "done" =>
                 (gt[r].status_code >= 400 /\ gt[r].status # "completed")

\* C2's case: a request with voice_type "robot" has been answered.
C2_Witness ==
    \E r \in DOMAIN gt :
        /\ gt[r].voice_type = "robot"
        /\ gt[r].pc = "done"
        /\ gt[r].posts = 0

\* C4: of a request that passes validation the primary engine is called
\* once, first; the fallback engine is called once if that call raised and
\* never otherwise; and the request ends without audio (an engine error is
\* reported) only when both calls were made and both raised.
C4_PrimaryThenFallbackOnce ==
    \A r \in DOMAIN syn :
        LET calls == syn[r].calls
        IN  /\ Len(calls) <= 2
            /\ Len(calls) >= 1 => (calls[1][2] = TRUE /\ AcceptableSpeech(syn[r]))
            /\ Len(calls) = 2 =>
                   (calls[1] = PrimaryCall("raised") /\ calls[2][2] = FALSE)
            /\ (syn[r].pc = "done" /\ AcceptableSpeech(syn[r])) =>
                   /\ calls \in
                        { << PrimaryCall("returned") >>,
                          << PrimaryCall("raised"), FallbackCall("returned") >>,
                          << PrimaryCall("raised"), FallbackCall("raised") >> }
                   /\ syn[r].audio_data = <<"none", 0>>
                        <=> calls = << PrimaryCall("raised"),
                                       FallbackCall("raised") >>

\* C4's case: one request has ended in an error after both engines raised,
\* another was completed by the fallback engine.
C4_Witness ==
    \E r, q \in DOMAIN syn :
        /\ syn[r].pc = "done"
        /\ syn[r].calls = << PrimaryCall("raised"), FallbackCall("raised") >>
        /\ syn[r].status_code = 500
        /\ syn[q].pc = "done"
        /\ syn[q].calls = << PrimaryCall("raised"), FallbackCall("returned") >>
        /\ syn[q].status = "completed"

\* Ten lowercase letters.
IsRandomName(s) ==
    /\ Len(s) = 10
    /\ \A i \in 1..10 : \E k \in 1..26 : LowerLetters[k] = s[i]

\* C8 (as claimed): a completed text_to_audio request that gave no filename
\* returns ten lowercase letters followed by ".mp3" when the synthesizer
\* used the primary engine and by ".wav" when it fell back: the filename
\* under which the synthesizer stored the audio.
C8_GatewayFilenameIsStoredFile ==
    \A r \in DOMAIN gt :
        (/\ gt[r].pc = "done"
         /\ gt[r].status = "completed"
         /\ gt[r].request_filename = << >>)
        => /\ IsRandomName(SubSeq(gt[r].filename, 1, 10))
           /\ SubSeq(gt[r].filename, 11, Len(gt[r].filename)) =
                  IF syn[r].calls = << PrimaryCall("returned") >>
                  THEN <<".","m","p","3">> ELSE <<".","w","a","v">>
           /\ gt[r].filename = syn[r].filename

\* C9 (as claimed): a /generate-speech request with a voice_type other than
\* male and female, a text of more than 5000 characters or a text of
\* whitespace only is answered with a 4xx status, calls no engine and writes
\* no file.
C9_BadSpeechAnswered4xx ==
    \A r \in DOMAIN syn :
        (syn[r].pc = "done" /\ ~AcceptableSpeech(syn[r]))
        => /\ syn[r].status_code \in 400..499
           /\ syn[r].calls = << >>
           /\ syn[r].file_path = <<"", << >> >>

\* C10: at the step by which /generate-speech answers "completed", the
\* filename of the response names a file of the temp directory and a file of
\* the destination folder (download_path, or the Downloads folder when none
\* is given), both holding the bytes the engine returned for this request;
\* the filename ends in ".mp3" exactly when the primary engine returned them
\* and in ".wav" exactly when the fallback engine did.
C10_CompletedFileStored ==
    [][\A r \in DOMAIN syn :
           (syn[r].pc # "done" /\ syn'[r].pc = "done"
                /\ syn'[r].status = "completed")
           => LET y       == syn'[r]
                  primary == y.calls = << PrimaryCall("returned") >>
                  second  == y.calls = << PrimaryCall("raised"),
                                          FallbackCall("returned") >>
                  bytes   == <<IF primary THEN "mp3" ELSE "wav", r>>
                  folder  == IF y.download_path # "" THEN y.download_path
                             ELSE "~/Downloads"
              IN  /\ primary \/ second
                  /\ y.filename \in DOMAIN synTemp'
                  /\ synTemp'[y.filename] = bytes
                  /\ y.file_path = <<folder, y.filename>>
                  /\ y.file_path \in DOMAIN synDest'
                  /\ synDest'[y.file_path] = bytes
                  /\ EndsWith(y.filename, <<".","m","p","3">>) <=> primary
                  /\ EndsWith(y.filename, <<".","w","a","v">>) <=> second]_vars

\* C10's case: a request that asked for "a.wav" in folder /d was completed
\* by the fallback engine, and its file is in both places.
C10_Witness ==
    \E r \in DOMAIN syn :
        /\ syn[r].pc = "done"
        /\ syn[r].status = "completed"
        /\ syn[r].request_filename = <<"a",".","w","a","v">>
        /\ syn[r].calls = << PrimaryCall("raised"), FallbackCall("returned") >>
        /\ EndsWith(syn[r].filename, <<".","w","a","v">>)
        /\ syn[r].filename \in DOMAIN synTemp
        /\ <<"/d", syn[r].filename>> \in DOMAIN synDest
        /\ synDest[<<"/d", syn[r].filename>>] = <<"wav", r>>

\* ------------------------------------------------- claims: concurrency
\* The process_media requests whose transcribe_audio call is in progress.
Transcribing == { r \in DOMAIN proc : proc[r].pc = "transcribing" }

\* C11 (as claimed): nothing serialises the recognition-model invocations:
\* a transcribe_audio call in progress never holds back another request in
\* flight, so a request whose upload has been read may go on (to its own
\* transcribe_audio call) while the first call is still running.
C11_NothingSerialisesTranscriptions ==
    \A r \in DOMAIN proc, q \in DOMAIN proc :
        (r # q /\ r \in Transcribing /\ proc[q].pc = "reading")
            => ENABLED P_Validate(q)

\* C11 (amended): with several /process-media requests in flight on the
\* single event loop, at most one transcribe_audio call is in progress at any
\* moment, and while it is, every other request in flight is either yet to
\* pass its file.read() or already answered: the handler calls
\* transcribe_audio synchronously, so the event loop serialises the calls.
C11_OneTranscriptionAtATime ==
    /\ Cardinality(Transcribing) <= 1
    /\ \A r \in Transcribing :
          /\ procLoop = r
          /\ \A q \in DOMAIN proc \ {r} :
                proc[q].pc \in {"idle", "reading", "done"}

\* C11's case: one request's transcribe_audio call is running while another
\* request, one that will be transcribed too, is in flight behind it.
C11_Witness ==
    \E r \in Transcribing, q \in DOMAIN proc :
        /\ q # r
        /\ proc[q].pc = "reading"
        /\ ~TooLarge(proc[q].file_size)

\* The requests whose engine call waits in the executor's queue.
PoolWaiting == { poolQueue[i][1] : i \in 1..Len(poolQueue) }

\* The requests that are in and not yet answered.
SynInFlight == { r \in DOMAIN syn : syn[r].pc \notin {"idle", "done"} }

\* How far generate_speech has come for request r.
SynRank(y, waiting, running) ==
    CASE y.pc = "idle"     -> 0
      [] y.pc = "received" -> 1
      [] y.pc = "primary"  -> IF waiting THEN 2 ELSE IF running THEN 3 ELSE 4
      [] y.pc = "fallback" -> IF waiting THEN 5 ELSE IF running THEN 6 ELSE 7
      [] OTHER             -> 8

\* A step of the synthesizer takes one request further and none back.
SynAdvances ==
    /\ \A r \in DOMAIN syn :
          SynRank(syn'[r], r \in PoolWaiting', r \in poolRunning')
              >= SynRank(syn[r], r \in PoolWaiting, r \in poolRunning)
    /\ \E r \in DOMAIN syn :
          SynRank(syn'[r], r \in PoolWaiting', r \in poolRunning')
              > SynRank(syn[r], r \in PoolWaiting, r \in poolRunning)

\* C12: in the synthesizer at most 4 (max_workers) engine calls, primary or
\* fallback, execute at the same time.  A call submitted while 4 are running
\* waits in the executor's queue and is not started, and meanwhile the event
\* loop goes on: a request that has come in can be validated and a handler
\* whose call has ended can continue.  No request gets stuck: as long as a
\* request is unanswered its handler can step, or its call is running (and
\* ends), or its call waits while the head of the queue can start or some
\* running call is there to end; this holds for a fallback call resubmitted
\* to the same executor as well, since a handler holds no worker while it
\* resubmits.  Every step takes a request further and none back, and a
\* request makes at most two engine calls, so every request is answered
\* once every engine call ends.
C12_PoolBoundedAndEveryRequestAnswered ==
    /\ [](Cardinality(poolRunning) <= max_workers)
    /\ [](\A r \in PoolWaiting :
            /\ r \notin poolRunning
            /\ syn[r].future = "pending"
            /\ Cardinality(poolRunning) = max_workers => ~ENABLED E_Start(r))
    /\ [](\A r \in SynInFlight :
            \/ ENABLED (S_Validate(r) \/ S_Fallback(r) \/ S_Fail(r)
                           \/ S_Persist(r, "ok", TRUE))
            \/ r \in poolRunning /\ ENABLED E_Finish(r, TRUE)
            \/ /\ r \in PoolWaiting
               /\ \/ ENABLED E_Start(Head(poolQueue)[1])
                  \/ \E q \in poolRunning : ENABLED E_Finish(q, TRUE))
    /\ [](\A r \in DOMAIN syn : Len(syn[r].calls) <= 2)
    /\ [][SynAdvances]_vars

\* C12's case: four engine calls are running and a fifth call, the fallback
\* call of a request whose primary call raised, waits for a worker.
C12_Witness ==
    /\ Cardinality(poolRunning) = max_workers
    /\ \E r \in PoolWaiting :
          /\ syn[r].pc = "fallback"
          /\ syn[r].calls = << PrimaryCall("raised") >>
          /\ <<r, FALSE>> = Head(poolQueue)

\* The generate_speech requests answered "completed".
SynCompleted ==
    { r \in DOMAIN syn : syn[r].pc = "done" /\ syn[r].status = "completed" }

\* The audio the engines made for request r: that of the call that returned.
SynAudio(r) ==
    EngineAudio(syn[r].calls = << PrimaryCall("returned") >>, r)

\* Request r is answered "completed" in this step.
SynCompletes(r) ==
    /\ syn[r].pc # "done"
    /\ syn'[r].pc = "done"
    /\ syn'[r].status = "completed"

\* The step that completes a request leaves that request's audio at the
\* temp path and at file_path, whatever was there before, and changes no
\* other request's answer; nothing but a completing request changes the file
\* at a destination path.
SynLastWriterWins ==
    /\ \A r \in DOMAIN syn :
          SynCompletes(r)
              => /\ synTemp'[syn'[r].filename]
                        = EngineAudio(AwaitedIsPrimary(syn[r]), r)
                 /\ synDest'[syn'[r].file_path]
                        = EngineAudio(AwaitedIsPrimary(syn[r]), r)
                 /\ \A q \in DOMAIN syn \ {r} : syn'[q] = syn[q]
    /\ \A path \in DOMAIN synDest' :
          (path \notin DOMAIN synDest \/ synDest'[path] # synDest[path])
              => \E r \in DOMAIN syn :
                    SynCompletes(r) /\ syn'[r].file_path = path

\* C13: /generate-speech requests that resolve to the same filename and the
\* same destination folder overwrite each other silently.  Two of them that
\* are both answered are both answered "completed" (200) with the same
\* file_path, their audio differing, and the file at that path holds the
\* audio of a single completed request, the one persisted last.
C13_SilentOverwrite ==
    /\ [](\A r \in SynCompleted, q \in SynCompleted :
            (r # q /\ syn[r].file_path = syn[q].file_path)
                => /\ syn[r].filename = syn[q].filename
                   /\ syn[r].status_code = HTTP_200_OK
                   /\ syn[q].status_code = HTTP_200_OK
                   /\ SynAudio(r) # SynAudio(q)
                   /\ \E x \in SynCompleted :
                         /\ syn[x].file_path = syn[r].file_path
                         /\ synDest[syn[r].file_path] = SynAudio(x))
    /\ [][SynLastWriterWins]_vars

\* C13's case: two requests were answered "completed" with the same
\* file_path while the file there, and the one at the temp path, hold the
\* audio of the second to be persisted and not that of the first.
C13_Witness ==
    \E r \in SynCompleted, q \in SynCompleted :
        /\ r # q
        /\ syn[r].file_path = syn[q].file_path
        /\ synDest[syn[q].file_path] = SynAudio(q)
        /\ synTemp[syn[q].filename] = SynAudio(q)
        /\ synDest[syn[r].file_path] # SynAudio(r)

\* ------------------------------------------------ claims: error handling
\* The generate_speech requests that failed with the given exception.
SynFailedWith(raised) ==
    { r \in DOMAIN syn : syn[r].pc = "done" /\ syn[r].detail = raised }

\* What a step does to the files.  A request that fails in
\* copy_file_to_destination has by then left its audio in the temp directory
\* under its final filename; one that
\* fails in validation or in both engines changes no file as it fails.  Only
\* a request whose engine call returned writes a file at all, no step removes
\* a file from the temp directory, and a download is answered with the file
\* of the name asked for, whatever the job_id.
SynFilesAfterFailure ==
    /\ \A r \in DOMAIN syn :
          (syn[r].pc # "done" /\ syn'[r].pc = "done")
              => /\ syn'[r].detail = ErrorIn("copy_file_to_destination")
                      => /\ syn[r].future = "returned"
                         /\ syn'[r].filename = syn[r].filename
                         /\ synTemp'[syn[r].filename]
                                = EngineAudio(AwaitedIsPrimary(syn[r]), r)
                         /\ EndsWith(syn[r].filename, DotMp3)
                                <=> AwaitedIsPrimary(syn[r])
                 /\ syn'[r].detail \in { HttpExc(HTTP_400_BAD_REQUEST),
                                         ErrorIn("run_tts_generation") }
                      => synTemp' = synTemp /\ synDest' = synDest
    /\ (synTemp' # synTemp \/ synDest' # synDest)
          => \E r \in DOMAIN syn :
                /\ syn[r].pc \in {"primary", "fallback"}
                /\ syn[r].future = "returned"
                /\ syn'[r].pc = "done"
    /\ \A f \in DOMAIN synTemp : f \in DOMAIN synTemp'
    /\ dl' # dl
          => IF dl'.filename \in DOMAIN synTemp
             THEN /\ dl'.status_code = HTTP_200_OK
                  /\ dl'.body = synTemp[dl'.filename]
             ELSE dl'.status_code # HTTP_200_OK

====
